---- MODULE Spec2Model ----
(***************************************************************************)
(* deployProxy (packages/plugin-hardhat/src/deploy-proxy.ts) and the       *)
(* create2 deployer (packages/plugin-hardhat/src/utils/create2-deployer.ts)*)
(* as a state machine: concurrent deployProxy calls against one network,   *)
(* one Manifest and one chain.                                             *)
(*                                                                         *)
(* Strings are sequences of tokens.  A token is a pair <<tag, payload>>:   *)
(*   <<"c", s>>  a literal run of characters / bytes named by the string s *)
(*   <<"u", t>>  the UTF-8 bytes of the text t, t a sequence of tokens     *)
(*   <<"n", i>>  the encoding of the number i                              *)
(*   <<"k", b>>  the 32 bytes keccak256(b), b a sequence of tokens         *)
(*   <<"a", b>>  the low-order 20 bytes of keccak256(b)                    *)
(* keccak256 is one-way and collision free: it is kept symbolic.           *)
(***************************************************************************)
EXTENDS Integers, Sequences, FiniteSets, TLC

(***************************************************************************)
(* Bounds                                                                  *)
(***************************************************************************)
\* number of deployProxy calls made against the network
NCalls == 2
Calls == 1..NCalls

(***************************************************************************)
(* String and byte helpers of the ethers library, as used by the source    *)
(***************************************************************************)
C(s) == <<"c", s>>
X0 == C("0x")

\* `0x${...}`
Hex(bytes) == <<X0>> \o bytes

\* ethers arrayify: the bytes a 0x-prefixed hex string denotes
Arrayify(h) == Tail(h)

RECURSIVE Replace0x(_)
\* x.replace(/0x/, ''): drops the first occurrence of "0x", wherever it is
Replace0x(x) ==
  IF x = <<>> THEN <<>>
  ELSE IF Head(x) = X0 THEN Tail(x)
  ELSE <<Head(x)>> \o Replace0x(Tail(x))

\* .slice(2): drops the two leading characters (one "0x" token)
Slice2(x) == SubSeq(x, 2, Len(x))

RECURSIVE Join(_)
\* [..].join('')
Join(parts) == IF parts = <<>> THEN <<>> ELSE Head(parts) \o Join(Tail(parts))

\* ethers.utils.keccak256 of a hex string: a 0x-prefixed 32-byte hex string
keccak256(h) == Hex(<< <<"k", Arrayify(h)>> >>)

\* .slice(-40) of a keccak256 result: its low-order 20 bytes, without prefix
Slice40(h) == << <<"a", h[2][2]>> >>

\* .toLowerCase(): keccak256 yields lower-case digits already
toLowerCase(x) == x

\* ethers.utils.id: keccak256 of the UTF-8 bytes of a text
id(text) == Hex(<< <<"k", << <<"u", text>> >> >> >>)

\* Number.prototype.toString / String.prototype.toString
\* a salt is <<"string", text>> or <<"number", n>>
NumToString(n) == <<C(<<"0", "1", "2", "3", "4", "5", "6", "7", "8", "9">>[n + 1])>>
toString(salt) == IF salt[1] = "number" THEN NumToString(salt[2]) ELSE salt[2]

\* abiCoder.encode of one value: an address is a static word, bytes are dynamic
EncodeOne(type, value) ==
  IF type = "address" THEN Arrayify(value) ELSE <<C("dyn")>> \o Arrayify(value)

RECURSIVE EncodeAll(_, _)
EncodeAll(dataTypes, data) ==
  IF dataTypes = <<>> THEN <<>>
  ELSE EncodeOne(Head(dataTypes), Head(data)) \o EncodeAll(Tail(dataTypes), Tail(data))

(***************************************************************************)
(* create2-deployer.ts                                                     *)
(***************************************************************************)
encodeParams(dataTypes, data) == Hex(EncodeAll(dataTypes, data))

buildBytecode(constructorTypes, constructorArgs, contractBytecode) ==
  contractBytecode \o Slice2(encodeParams(constructorTypes, constructorArgs))

buildCreate2Address(factoryAddress, saltHex, byteCode) ==
  toLowerCase(Hex(Slice40(keccak256(Hex(Join(
    << Replace0x(<<C("ff")>>), Replace0x(factoryAddress), Replace0x(saltHex),
       Replace0x(keccak256(byteCode)) >>))))))

\* a salt that is a 0x-prefixed hex string taken as the bytes it denotes
saltToHex_RawAsGiven(salt) ==
  IF salt[1] = "string" /\ Head(salt[2]) = X0 THEN salt[2] ELSE id(toString(salt))

\* lines 22-23: (salt: string | number) => ethers.utils.id(salt.toString())
saltToHex(salt) == id(toString(salt))

getCreate2Address(factoryAddress, salt, contractBytecode, constructorTypes, constructorArgs) ==
  buildCreate2Address(factoryAddress, saltToHex(salt),
                      buildBytecode(constructorTypes, constructorArgs, contractBytecode))

(***************************************************************************)
(* The chain: contract creation as the EVM computes it                     *)
(***************************************************************************)
\* CREATE2: low 20 bytes of keccak256(0xff ++ factory ++ salt ++ keccak256(initCode))
EvmCreate2(factoryBytes, saltBytes, initCode) ==
  << <<"a", <<C("ff")>> \o factoryBytes \o saltBytes \o << <<"k", initCode>> >> >> >>

\* CREATE: low 20 bytes of keccak256(rlp(sender, nonce))
EvmCreate(senderBytes, nonce) ==
  << <<"a", senderBytes \o << <<"n", nonce>> >> >> >>

(***************************************************************************)
(* Inputs of deployProxy                                                   *)
(***************************************************************************)
Undefined == <<"undefined">>

\* the signer's address and the create2 factory contract's address
SignerAddress == Hex(<<C("signer")>>)
FactoryAddress == Hex(<<C("factory")>>)
DeployFactory == <<"contract", FactoryAddress>>

\* creation bytecode of the implementation factories a caller may pass
ImplCodes == {"implA", "implB"}
Bytecode(code) == Hex(<<C(code)>>)

\* creation bytecode of the proxy contracts (getProxyFactory,
\* getTransparentUpgradeableProxyFactory, getProxyAdminFactory)
ERC1967ProxyBytecode == Bytecode("ERC1967Proxy")
TransparentUpgradeableProxyBytecode == Bytecode("TransparentUpgradeableProxy")
ProxyAdminBytecode == Bytecode("ProxyAdmin")

Kinds == {"transparent", "uups", "beacon"}
Salts == {<<"string", <<C("test")>>>>}

\* what the upgrade-safety validator finds in each implementation
Violations(code) == IF code = "implB" THEN {"delegatecall"} ELSE {}

\* the options and implementation factory of a call; unsafeAllow names only
\* checks the implementation would fail
OptsSpace ==
  { o \in [ kind : Kinds \cup {"undefined"},
            deployFactory : {Undefined, DeployFactory},
            deployFactorySalt : {Undefined} \cup Salts,
            unsafeAllow : SUBSET {"delegatecall"},
            ImplFactory : ImplCodes ] :
      o.unsafeAllow \subseteq Violations(o.ImplFactory) }

Coalesce(v, default) == IF v = "undefined" THEN default ELSE v

(***************************************************************************)
(* State                                                                   *)
(***************************************************************************)
VARIABLES
  frame,     \* per call: position and local variables of deployProxy
  manifest,  \* the network's Manifest: admin, impls, proxies
  lock,      \* holder of the Manifest lock, 0 when free
  txs        \* creation transactions submitted to the chain, in nonce order

vars == <<frame, manifest, lock, txs>>

NoDeployment == [address |-> <<>>, txHash |-> 0, deployTransaction |-> 0]
NoProxyDeployment ==
  [kind |-> "", address |-> <<>>, txHash |-> 0, deployTransaction |-> 0]
NoOpts ==
  [kind |-> "undefined", deployFactory |-> Undefined, deployFactorySalt |-> Undefined,
   unsafeAllow |-> {}, ImplFactory |-> "implA"]

InitFrame ==
  [ pc |-> "idle", opts |-> NoOpts,
    impl |-> <<>>, kind |-> "", contractAddress |-> <<>>,
    contractDeployment |-> NoProxyDeployment,
    data |-> <<>>,
    ProxyFactory |-> <<>>, proxyFactoryArgs |-> <<>>,
    proxyFactoryConstructorArgTypes |-> <<>>,
    proxyDeployment |-> NoProxyDeployment,
    inst |-> [address |-> <<>>, deployTransaction |-> 0],
    pending |-> 0,        \* the transaction the call is awaiting
    error |-> "",         \* what the call threw
    warnings |-> 0,       \* logWarning calls made
    validated |-> FALSE,  \* the validator has passed the implementation
    startAdmin |-> FALSE, \* the Manifest had an admin when the call started
    wrote |-> {},         \* Manifest fields the call has written
    after |-> {} ]        \* the calls that had returned when the call started

Init ==
  /\ frame = [c \in Calls |-> InitFrame]
  /\ manifest = [admin |-> NoDeployment, impls |-> {}, proxies |-> <<>>]
  /\ lock = 0
  /\ txs = <<>>

(***************************************************************************)
(* Chain                                                                   *)
(***************************************************************************)
\* a creation transaction: `to` is empty (ordinary creation by the signer) or
\* the address of the create2 factory whose deploy(code, salt) is called
Tx(op, c, to, initCode, salt) ==
  [op |-> op, by |-> c, to |-> to, initCode |-> initCode, salt |-> salt,
   status |-> "pending"]

\* the address the chain gives the contract created by transaction i
TxAddress(i) ==
  IF txs[i].to # <<>>
  THEN EvmCreate2(txs[i].to, txs[i].salt, txs[i].initCode)
  ELSE EvmCreate(Arrayify(SignerAddress), i - 1)

HasCode(addressBytes) ==
  \E j \in 1..Len(txs) : txs[j].status = "ok" /\ TxAddress(j) = addressBytes

Pending(i) == i \in 1..Len(txs) /\ txs[i].status = "pending"

\* the chain mines the signer's transactions in nonce order; a creation at an
\* address that already holds code reverts, any creation may revert
Mine ==
  \E i \in 1..Len(txs) :
    /\ Pending(i)
    /\ \A j \in 1..(i - 1) : ~Pending(j)
    /\ \E status \in {"ok", "reverted"} :
         /\ HasCode(TxAddress(i)) => status = "reverted"
         /\ txs' = [txs EXCEPT ![i].status = status]
    /\ UNCHANGED <<frame, manifest, lock>>

(***************************************************************************)
(* create2-deployer.ts: deployContract                                     *)
(***************************************************************************)
\* deployContract handing the factory the caller's salt instead of saltHex
deployContractTx_RawSalt(op, c, salt, factory, contractBytecode, constructorTypes, constructorArgs) ==
  Tx(op, c, Arrayify(factory[2]),
     Arrayify(buildBytecode(constructorTypes, constructorArgs, contractBytecode)),
     << <<"u", toString(salt)>> >>)

\* factory.deploy(bytecode, saltHex): the transaction deployContract submits
deployContractTx(op, c, salt, factory, contractBytecode, constructorTypes, constructorArgs) ==
  Tx(op, c, Arrayify(factory[2]),
     Arrayify(buildBytecode(constructorTypes, constructorArgs, contractBytecode)),
     Arrayify(saltToHex(salt)))

\* { address, txHash, deployTransaction: tx }, tx being transaction number n
deployContract(n, salt, factory, contractBytecode, constructorTypes, constructorArgs) ==
  [address |-> getCreate2Address(factory[2], salt, contractBytecode,
                                 constructorTypes, constructorArgs),
   txHash |-> n, deployTransaction |-> n]

(***************************************************************************)
(* deploy-proxy.ts: deployProxy                                            *)
(***************************************************************************)
Deterministic(o) == o.deployFactory # Undefined /\ o.deployFactorySalt # Undefined

\* Object.assign({ kind }, deployment)
AssignKind(kind, d) ==
  [kind |-> kind, address |-> d.address, txHash |-> d.txHash,
   deployTransaction |-> d.deployTransaction]

Fail(c, error) == [frame EXCEPT ![c].pc = "failed", ![c].error = error]

\* the call starts with options drawn from space: args/opts normalised,
\* Manifest.forNetwork opened; calls are numbered in the order they start
StartWith(c, space) ==
  /\ frame[c].pc = "idle"
  /\ \A d \in 1..(c - 1) : frame[d].pc # "idle"
  /\ \E o \in space :
       frame' = [frame EXCEPT
         ![c].pc = "impl", ![c].opts = o,
         ![c].startAdmin = (manifest.admin # NoDeployment),
         ![c].after = {d \in Calls : frame[d].pc \in {"done", "failed"}}]
  /\ UNCHANGED <<manifest, lock, txs>>

Start(c) == StartWith(c, OptsSpace)

\* the deterministic path defaulting like the ordinary one
DeterministicKind_Transparent(o) == Coalesce(o.kind, "transparent")

\* kind = opts.kind ?? 'uups' on the deterministic path
DeterministicKind(o) == Coalesce(o.kind, "uups")

\* deterministic path, lines 42-59: the address is predicted and the
\* implementation's creation is submitted through the factory
ImplDeployContract(c) ==
  LET o == frame[c].opts
      bytecode == Bytecode(o.ImplFactory)
      n == Len(txs) + 1
  IN
  /\ frame[c].pc = "impl"
  /\ Deterministic(o)
  /\ \/ /\ txs' = Append(txs, deployContractTx("impl", c, o.deployFactorySalt,
                                                 o.deployFactory, bytecode, <<>>, <<>>))
        /\ frame' = [frame EXCEPT
             ![c].pc = "implWait",
             ![c].kind = DeterministicKind(o),
             ![c].contractAddress =
                getCreate2Address(o.deployFactory[2], o.deployFactorySalt,
                                  bytecode, <<>>, <<>>),
             ![c].contractDeployment =
                AssignKind(DeterministicKind(o),
                           deployContract(n, o.deployFactorySalt, o.deployFactory,
                                          bytecode, <<>>, <<>>))]
     \/ \* factory.deploy rejects
        /\ frame' = [Fail(c, "revert") EXCEPT ![c].kind = DeterministicKind(o)]
        /\ txs' = txs
  /\ UNCHANGED <<manifest, lock>>

\* getInitializerData(contractInterface, args, opts.initializer)
getInitializerData(o) == Hex(<<C("initialize")>>)

\* the wait's outcome ignored: a reverted creation does not stop the call
ImplWait_IgnoresRevert(c) ==
  /\ frame[c].pc = "implWait"
  /\ ~Pending(frame[c].contractDeployment.deployTransaction)
  /\ frame' = [frame EXCEPT ![c].pc = "kind",
                            ![c].impl = frame[c].contractAddress,
                            ![c].data = getInitializerData(frame[c].opts)]
  /\ UNCHANGED <<manifest, lock, txs>>

\* a reverted creation sends the call back to submit the implementation again
ImplWait_Retries(c) ==
  /\ frame[c].pc = "implWait"
  /\ ~Pending(frame[c].contractDeployment.deployTransaction)
  /\ IF txs[frame[c].contractDeployment.deployTransaction].status = "ok"
     THEN frame' = [frame EXCEPT ![c].pc = "kind",
                                 ![c].impl = frame[c].contractAddress,
                                 ![c].data = getInitializerData(frame[c].opts)]
     ELSE frame' = [frame EXCEPT ![c].pc = "impl"]
  /\ UNCHANGED <<manifest, lock, txs>>

\* the call going on without awaiting the implementation's creation
ImplWait_NoWait(c) ==
  /\ frame[c].pc = "implWait"
  /\ frame' = [frame EXCEPT ![c].pc = "kind",
                            ![c].impl = frame[c].contractAddress,
                            ![c].data = getInitializerData(frame[c].opts)]
  /\ UNCHANGED <<manifest, lock, txs>>

\* deterministic path, lines 61-63 and 71-72:
\* await contractDeployment.deployTransaction.wait()
ImplWait(c) ==
  /\ frame[c].pc = "implWait"
  /\ ~Pending(frame[c].contractDeployment.deployTransaction)
  /\ IF txs[frame[c].contractDeployment.deployTransaction].status = "ok"
     THEN frame' = [frame EXCEPT ![c].pc = "kind",
                                 ![c].impl = frame[c].contractAddress,
                                 ![c].data = getInitializerData(frame[c].opts)]
     ELSE frame' = Fail(c, "revert")
  /\ UNCHANGED <<manifest, lock, txs>>

(***************************************************************************)
(* Collaborators outside the two source files: utils/deploy.ts,            *)
(* utils/deploy-impl.ts and upgrades-core (Manifest, fetchOrDeployAdmin)   *)
(***************************************************************************)
\* deploy(factory, ...args): the ordinary creation transaction
deployTx(op, c, bytecode, types, args) ==
  Tx(op, c, <<>>, Arrayify(bytecode) \o EncodeAll(types, args), <<>>)

\* deploy's result { address, txHash, deployTransaction } for transaction n
deploy(n) ==
  [address |-> Hex(EvmCreate(Arrayify(SignerAddress), n - 1)),
   txHash |-> n, deployTransaction |-> n]

\* the validator's verdict on an implementation, unsafeAllow forwarded
UpgradeSafe(o) == Violations(o.ImplFactory) \subseteq o.unsafeAllow

\* the kind deployProxyImpl returns
OrdinaryKind(o) == Coalesce(o.kind, "transparent")

\* the Manifest key of an implementation: the hash of its creation bytecode
ImplKey(bytecode) == keccak256(bytecode)

ImplEntry(bytecode) == {e \in manifest.impls : e.hash = ImplKey(bytecode)}

\* ordinary path, lines 66-68: deployProxyImpl validates the implementation,
\* then fetches it from the Manifest or, holding the Manifest lock, deploys it
DeployProxyImpl(c) ==
  LET o == frame[c].opts
      bytecode == Bytecode(o.ImplFactory)
  IN
  /\ frame[c].pc = "impl"
  /\ ~Deterministic(o)
  /\ IF ~UpgradeSafe(o)
     THEN /\ frame' = Fail(c, "UpgradesError")
          /\ UNCHANGED <<lock, txs>>
     ELSE
       /\ lock = 0
       /\ IF ImplEntry(bytecode) # {}
          THEN /\ frame' = [frame EXCEPT
                    ![c].pc = "kind", ![c].validated = TRUE,
                    ![c].kind = OrdinaryKind(o),
                    ![c].impl = (CHOOSE e \in ImplEntry(bytecode) : TRUE).address,
                    ![c].data = getInitializerData(o)]
               /\ UNCHANGED <<lock, txs>>
          ELSE \/ /\ txs' = Append(txs, deployTx("impl", c, bytecode, <<>>, <<>>))
                  /\ lock' = c
                  /\ frame' = [frame EXCEPT
                       ![c].pc = "implDeploying", ![c].validated = TRUE,
                       ![c].pending = Len(txs) + 1]
               \/ /\ frame' = [Fail(c, "revert") EXCEPT ![c].validated = TRUE]
                  /\ UNCHANGED <<lock, txs>>
  /\ UNCHANGED manifest

\* the implementation's creation is confirmed: it is written to the Manifest
\* and the lock released; a revert releases the lock and propagates
DeployProxyImplConfirm(c) ==
  LET o == frame[c].opts
      n == frame[c].pending
      d == deploy(n)
  IN
  /\ frame[c].pc = "implDeploying"
  /\ ~Pending(n)
  /\ lock' = 0
  /\ IF txs[n].status = "ok"
     THEN /\ manifest' = [manifest EXCEPT !.impls = @ \cup
                 {[hash |-> ImplKey(Bytecode(o.ImplFactory)),
                   address |-> d.address, txHash |-> d.txHash]}]
          /\ frame' = [frame EXCEPT
                ![c].pc = "kind", ![c].impl = d.address,
                ![c].kind = OrdinaryKind(o),
                ![c].data = getInitializerData(o),
                ![c].wrote = @ \cup {"impl"}]
     ELSE /\ frame' = Fail(c, "revert")
          /\ UNCHANGED manifest
  /\ UNCHANGED txs

\* the admin's presence raised as an error instead of logged
WarnAdmin_Fatal(c) ==
  /\ frame[c].pc = "kind"
  /\ frame[c].kind = "uups"
  /\ frame' = IF manifest.admin # NoDeployment
              THEN Fail(c, "AdminExists")
              ELSE [frame EXCEPT ![c].pc = "uups"]
  /\ UNCHANGED <<manifest, lock, txs>>

\* lines 74-81: the advisory warning of a uups deployment
WarnAdmin(c) ==
  /\ frame[c].pc = "kind"
  /\ frame[c].kind = "uups"
  /\ frame' = [frame EXCEPT
       ![c].pc = "uups",
       ![c].warnings = IF manifest.admin # NoDeployment THEN @ + 1 ELSE @]
  /\ UNCHANGED <<manifest, lock, txs>>

\* lines 88-90
DispatchBeacon(c) ==
  /\ frame[c].pc = "kind"
  /\ frame[c].kind = "beacon"
  /\ frame' = Fail(c, "BeaconProxyUnsupportedError")
  /\ UNCHANGED <<manifest, lock, txs>>

\* the initializer data passed where the implementation's address belongs
UupsArgs_Swapped(impl, data) == <<data, impl>>

\* lines 94-95
UupsArgs(impl, data) == <<impl, data>>
UupsArgTypes == <<"address", "bytes">>

\* case 'uups' without its break: control falls into case 'transparent'
DispatchUups_FallsThrough(c) ==
  /\ frame[c].pc = "uups"
  /\ lock = 0
  /\ IF manifest.admin # NoDeployment
     THEN /\ frame' = [frame EXCEPT
               ![c].pc = "proxy",
               ![c].ProxyFactory = TransparentUpgradeableProxyBytecode,
               ![c].proxyFactoryArgs =
                  <<frame[c].impl, manifest.admin.address, frame[c].data>>,
               ![c].proxyFactoryConstructorArgTypes = <<"address", "address", "bytes">>]
          /\ UNCHANGED <<lock, txs>>
     ELSE /\ txs' = Append(txs, deployTx("admin", c, ProxyAdminBytecode, <<>>, <<>>))
          /\ lock' = c
          /\ frame' = [frame EXCEPT ![c].pc = "adminDeploying",
                                    ![c].pending = Len(txs) + 1]
  /\ UNCHANGED manifest

\* lines 92-97
DispatchUups(c) ==
  /\ frame[c].pc = "uups"
  /\ frame' = [frame EXCEPT
       ![c].pc = "proxy",
       ![c].ProxyFactory = ERC1967ProxyBytecode,
       ![c].proxyFactoryArgs = UupsArgs(frame[c].impl, frame[c].data),
       ![c].proxyFactoryConstructorArgTypes = UupsArgTypes]
  /\ UNCHANGED <<manifest, lock, txs>>

\* the implementation's address passed where the admin's belongs
TransparentArgs_ImplTwice(impl, adminAddress, data) == <<impl, impl, data>>

\* lines 103-104
TransparentArgs(impl, adminAddress, data) == <<impl, adminAddress, data>>
TransparentArgTypes == <<"address", "address", "bytes">>

\* lines 102-105, once fetchOrDeployAdmin has returned adminAddress
WithAdmin(c, adminAddress) ==
  [frame EXCEPT
     ![c].pc = "proxy",
     ![c].ProxyFactory = TransparentUpgradeableProxyBytecode,
     ![c].proxyFactoryArgs = TransparentArgs(frame[c].impl, adminAddress, frame[c].data),
     ![c].proxyFactoryConstructorArgTypes = TransparentArgTypes]

\* lines 99-101: fetchOrDeployAdmin(provider, () => deploy(AdminFactory))
\* returns the Manifest's admin or, holding the Manifest lock, deploys one
DispatchTransparent(c) ==
  /\ frame[c].pc = "kind"
  /\ frame[c].kind = "transparent"
  /\ lock = 0
  /\ IF manifest.admin # NoDeployment
     THEN /\ frame' = WithAdmin(c, manifest.admin.address)
          /\ UNCHANGED <<lock, txs>>
     ELSE \/ /\ txs' = Append(txs, deployTx("admin", c, ProxyAdminBytecode, <<>>, <<>>))
             /\ lock' = c
             /\ frame' = [frame EXCEPT ![c].pc = "adminDeploying",
                                       ![c].pending = Len(txs) + 1]
          \/ /\ frame' = Fail(c, "revert")
             /\ UNCHANGED <<lock, txs>>
  /\ UNCHANGED manifest

\* a revert propagating with the Manifest lock still held
AdminConfirm_KeepsLock(c) ==
  LET n == frame[c].pending
      d == deploy(n)
  IN
  /\ frame[c].pc = "adminDeploying"
  /\ ~Pending(n)
  /\ IF txs[n].status = "ok"
     THEN /\ lock' = 0
          /\ manifest' = [manifest EXCEPT !.admin = d]
          /\ frame' = [WithAdmin(c, d.address) EXCEPT ![c].wrote = @ \cup {"admin"}]
     ELSE /\ frame' = Fail(c, "revert")
          /\ UNCHANGED <<manifest, lock>>
  /\ UNCHANGED txs

\* the admin's creation is confirmed: it is written to the Manifest and the
\* lock released; a revert releases the lock and propagates
AdminConfirm(c) ==
  LET n == frame[c].pending
      d == deploy(n)
  IN
  /\ frame[c].pc = "adminDeploying"
  /\ ~Pending(n)
  /\ lock' = 0
  /\ IF txs[n].status = "ok"
     THEN /\ manifest' = [manifest EXCEPT !.admin = d]
          /\ frame' = [WithAdmin(c, d.address) EXCEPT ![c].wrote = @ \cup {"admin"}]
     ELSE /\ frame' = Fail(c, "revert")
          /\ UNCHANGED manifest
  /\ UNCHANGED txs

\* the proxy always created by ordinary creation
OrdinaryProxy_Always(o) == TRUE

\* line 109: opts.deployFactory === undefined || opts.deployFactorySalt === undefined
OrdinaryProxy(o) == o.deployFactory = Undefined \/ o.deployFactorySalt = Undefined

\* ordinary path, lines 109-114: deploy(ProxyFactory, ...proxyFactoryArgs)
\* submits the proxy's creation
ProxyDeploy(c) ==
  /\ frame[c].pc = "proxy"
  /\ OrdinaryProxy(frame[c].opts)
  /\ \/ /\ txs' = Append(txs, deployTx("proxy", c, frame[c].ProxyFactory,
                                         frame[c].proxyFactoryConstructorArgTypes,
                                         frame[c].proxyFactoryArgs))
        /\ frame' = [frame EXCEPT ![c].pc = "proxyDeploying",
                                  ![c].pending = Len(txs) + 1]
     \/ /\ frame' = Fail(c, "revert")
        /\ txs' = txs
  /\ UNCHANGED <<manifest, lock>>

\* deploy returns once the proxy's creation is confirmed
ProxyConfirm(c) ==
  LET n == frame[c].pending IN
  /\ frame[c].pc = "proxyDeploying"
  /\ ~Pending(n)
  /\ IF txs[n].status = "ok"
     THEN frame' = [frame EXCEPT
            ![c].pc = "addProxy",
            ![c].proxyDeployment = AssignKind(frame[c].kind, deploy(n))]
     ELSE frame' = Fail(c, "revert")
  /\ UNCHANGED <<manifest, lock, txs>>

\* deterministic path, lines 115-126: deployContract submits the proxy's
\* creation through the factory and returns
ProxyDeployContract(c) ==
  LET o == frame[c].opts
      n == Len(txs) + 1
  IN
  /\ frame[c].pc = "proxy"
  /\ ~OrdinaryProxy(o)
  /\ \/ /\ txs' = Append(txs, deployContractTx("proxy", c, o.deployFactorySalt,
                            o.deployFactory, frame[c].ProxyFactory,
                            frame[c].proxyFactoryConstructorArgTypes,
                            frame[c].proxyFactoryArgs))
        /\ frame' = [frame EXCEPT
             ![c].pc = "addProxy",
             ![c].proxyDeployment =
                AssignKind(frame[c].kind,
                           deployContract(n, o.deployFactorySalt, o.deployFactory,
                                          frame[c].ProxyFactory,
                                          frame[c].proxyFactoryConstructorArgTypes,
                                          frame[c].proxyFactoryArgs))]
     \/ /\ frame' = Fail(c, "revert")
        /\ txs' = txs
  /\ UNCHANGED <<manifest, lock>>

\* the call throwing once manifest.addProxy has appended
AddProxy_ThenThrows(c) ==
  /\ frame[c].pc = "addProxy"
  /\ lock = 0
  /\ manifest' = [manifest EXCEPT !.proxies = Append(@, frame[c].proxyDeployment)]
  /\ frame' = [Fail(c, "attach") EXCEPT ![c].wrote = @ \cup {"proxy"}]
  /\ UNCHANGED <<lock, txs>>

\* manifest.addProxy replacing the list by the new entry
AddProxy_Overwrites(c) ==
  /\ frame[c].pc = "addProxy"
  /\ lock = 0
  /\ manifest' = [manifest EXCEPT !.proxies = <<frame[c].proxyDeployment>>]
  /\ frame' = [frame EXCEPT
       ![c].pc = "done",
       ![c].wrote = @ \cup {"proxy"},
       ![c].inst = [address |-> frame[c].proxyDeployment.address,
                    deployTransaction |-> frame[c].proxyDeployment.deployTransaction]]
  /\ UNCHANGED <<lock, txs>>

\* the handle attached to the implementation's address
AddProxy_AttachesImpl(c) ==
  /\ frame[c].pc = "addProxy"
  /\ lock = 0
  /\ manifest' = [manifest EXCEPT !.proxies = Append(@, frame[c].proxyDeployment)]
  /\ frame' = [frame EXCEPT
       ![c].pc = "done",
       ![c].wrote = @ \cup {"proxy"},
       ![c].inst = [address |-> frame[c].impl,
                    deployTransaction |-> frame[c].proxyDeployment.deployTransaction]]
  /\ UNCHANGED <<lock, txs>>

\* lines 128-133: manifest.addProxy appends under the Manifest lock, then the
\* handle is attached to the proxy's address
AddProxy(c) ==
  /\ frame[c].pc = "addProxy"
  /\ lock = 0
  /\ manifest' = [manifest EXCEPT !.proxies = Append(@, frame[c].proxyDeployment)]
  /\ frame' = [frame EXCEPT
       ![c].pc = "done",
       ![c].wrote = @ \cup {"proxy"},
       ![c].inst = [address |-> frame[c].proxyDeployment.address,
                    deployTransaction |-> frame[c].proxyDeployment.deployTransaction]]
  /\ UNCHANGED <<lock, txs>>

Next ==
  \/ \E c \in Calls : Start(c)
  \/ \E c \in Calls : ImplDeployContract(c)
  \/ \E c \in Calls : ImplWait(c)
  \/ \E c \in Calls : DeployProxyImpl(c)
  \/ \E c \in Calls : DeployProxyImplConfirm(c)
  \/ \E c \in Calls : WarnAdmin(c)
  \/ \E c \in Calls : DispatchBeacon(c)
  \/ \E c \in Calls : DispatchUups(c)
  \/ \E c \in Calls : DispatchTransparent(c)
  \/ \E c \in Calls : AdminConfirm(c)
  \/ \E c \in Calls : ProxyDeploy(c)
  \/ \E c \in Calls : ProxyConfirm(c)
  \/ \E c \in Calls : ProxyDeployContract(c)
  \/ \E c \in Calls : AddProxy(c)
  \/ Mine

Spec == Init /\ [][Next]_vars

(***************************************************************************)
(* Calls that all ask for a transparent proxy                              *)
(***************************************************************************)
\* kind: 'transparent' on the ordinary and on the deterministic path, one
\* implementation factory
TransparentOpts ==
  { o \in OptsSpace :
      /\ o.kind = "transparent"
      /\ (o.deployFactory = Undefined) = (o.deployFactorySalt = Undefined)
      /\ o.ImplFactory = "implA" }

StartTransparent(c) == StartWith(c, TransparentOpts)

NextTransparent ==
  \/ \E c \in Calls : StartTransparent(c)
  \/ \E c \in Calls : ImplDeployContract(c)
  \/ \E c \in Calls : ImplWait(c)
  \/ \E c \in Calls : DeployProxyImpl(c)
  \/ \E c \in Calls : DeployProxyImplConfirm(c)
  \/ \E c \in Calls : DispatchTransparent(c)
  \/ \E c \in Calls : AdminConfirm(c)
  \/ \E c \in Calls : ProxyDeploy(c)
  \/ \E c \in Calls : ProxyConfirm(c)
  \/ \E c \in Calls : ProxyDeployContract(c)
  \/ \E c \in Calls : AddProxy(c)
  \/ Mine

SpecTransparent == Init /\ [][NextTransparent]_vars

\* the same calls under a fair scheduler: the event loop resumes every call
\* whose awaited promise has settled, and the chain mines every pending
\* transaction
FairTransparent ==
  /\ WF_vars(Mine)
  /\ \A c \in Calls :
       /\ WF_vars(ImplDeployContract(c))
       /\ WF_vars(ImplWait(c))
       /\ WF_vars(DeployProxyImpl(c))
       /\ WF_vars(DeployProxyImplConfirm(c))
       /\ WF_vars(DispatchTransparent(c))
       /\ WF_vars(AdminConfirm(c))
       /\ WF_vars(ProxyDeploy(c))
       /\ WF_vars(ProxyConfirm(c))
       /\ WF_vars(ProxyDeployContract(c))
       /\ WF_vars(AddProxy(c))

SpecTransparentFair == SpecTransparent /\ FairTransparent

(***************************************************************************)
(* getCreate2Address called on its own, for pre-flight address prediction  *)
(***************************************************************************)
\* a raw 32-byte salt, as a caller of a (salt: string | number) parameter
\* passes it: its 0x-prefixed hex string
RawSalt == Hex(<<C("5a17")>>)

\* the salts a caller passes: a name, a number, that number's decimal text,
\* a raw 32-byte value
QuerySalts ==
  {<<"string", <<C("test")>>>>, <<"number", 1>>, <<"string", <<C("1")>>>>,
   <<"string", RawSalt>>}

\* creation bytecode with the constructor types and arguments that go with it
QueryContracts ==
  {[bytecode |-> Bytecode(code), types |-> <<>>, args |-> <<>>] : code \in ImplCodes}
  \cup
  {[bytecode |-> ERC1967ProxyBytecode, types |-> UupsArgTypes,
    args |-> UupsArgs(Hex(<<C(impl)>>), getInitializerData(NoOpts))] :
      impl \in {"addr1", "addr2"}}
  \cup
  {[bytecode |-> TransparentUpgradeableProxyBytecode, types |-> TransparentArgTypes,
    args |-> TransparentArgs(Hex(<<C(impl)>>), Hex(<<C("addr3")>>),
                             getInitializerData(NoOpts))] :
      impl \in {"addr1", "addr2"}}

\* one call of getCreate2Address: the arguments are kept in the call's frame
\* and the returned address in contractAddress
GetCreate2AddressCall(c) ==
  /\ frame[c].pc = "idle"
  /\ \A d \in Calls : d < c => frame[d].pc # "idle"
  /\ \E salt \in QuerySalts, q \in QueryContracts :
       frame' = [frame EXCEPT
         ![c].pc = "done",
         ![c].opts = [NoOpts EXCEPT !.deployFactory = DeployFactory,
                                    !.deployFactorySalt = salt],
         ![c].ProxyFactory = q.bytecode,
         ![c].proxyFactoryConstructorArgTypes = q.types,
         ![c].proxyFactoryArgs = q.args,
         ![c].contractAddress =
            getCreate2Address(FactoryAddress, salt, q.bytecode, q.types, q.args)]
  /\ UNCHANGED <<manifest, lock, txs>>

NextAddress == \E c \in Calls : GetCreate2AddressCall(c)

SpecAddress == Init /\ [][NextAddress]_vars

(***************************************************************************)
(* Properties                                                              *)
(***************************************************************************)
TxsOf(c) == {i \in 1..Len(txs) : txs[i].by = c}
TxsOfOp(c, op) == {i \in TxsOf(c) : txs[i].op = op}
Returned(c) == frame[c].pc \in {"done", "failed"}

\* C1: a call whose resolved kind is beacon fails with
\* BeaconProxyUnsupportedError, whatever its other options, and has
\* submitted no creation transaction.
C1_BeaconSubmitsNothing ==
  \A c \in Calls :
    frame[c].kind = "beacon" =>
      /\ TxsOf(c) = {}
      /\ frame[c].pc # "done"
      /\ frame[c].pc = "failed" => frame[c].error = "BeaconProxyUnsupportedError"

\* C3: a proxy's creation is submitted only for an implementation the
\* upgrade-safety validator has checked, on the ordinary and on the
\* deterministic path.
C3_ValidatedBeforeProxy ==
  \A c \in Calls : TxsOfOp(c, "proxy") # {} => frame[c].validated

\* C4: the proxy's creation is confirmed before the call goes on to
\* manifest.addProxy, so every proxy of the Manifest has a confirmed creation.
C4_ConfirmedBeforeAddProxy ==
  /\ \A c \in Calls :
       frame[c].pc = "addProxy" =>
         txs[frame[c].proxyDeployment.deployTransaction].status = "ok"
  /\ \A k \in 1..Len(manifest.proxies) :
       txs[manifest.proxies[k].deployTransaction].status = "ok"

AdminTxs == {i \in 1..Len(txs) : txs[i].op = "admin"}
AllTransparentDone ==
  \A c \in Calls : frame[c].pc = "done" /\ frame[c].kind = "transparent"

\* C2: once N concurrent transparent calls on a Manifest that had no admin
\* have all completed, exactly one admin was deployed, it is the Manifest's
\* admin, and every proxy was created with that admin's address.
C2_SingleAdmin ==
  AllTransparentDone =>
    /\ Cardinality(AdminTxs) = 1
    /\ \A i \in AdminTxs : txs[i].status = "ok" /\ manifest.admin = deploy(i)
    /\ \A c \in Calls :
         /\ frame[c].proxyFactoryArgs[2] = manifest.admin.address
         /\ txs[frame[c].proxyDeployment.deployTransaction].initCode =
              Arrayify(TransparentUpgradeableProxyBytecode) \o
              EncodeAll(TransparentArgTypes,
                        <<frame[c].impl, manifest.admin.address, frame[c].data>>)

\* two transparent calls that both started on the admin-less Manifest,
\* overlapped and completed
C2_Witness ==
  /\ AllTransparentDone
  /\ \A c \in Calls : ~frame[c].startAdmin /\ frame[c].after = {}
  /\ \E c \in Calls : "admin" \in frame[c].wrote

\* C5 as stated: a failed call leaves the Manifest as it was when the call
\* started: no admin, implementation or proxy entry it wrote remains.
C5_FailedCallWroteNothing ==
  \A c \in Calls : frame[c].pc = "failed" => frame[c].wrote = {}

\* C5 amended: a failed call has appended no proxy to the Manifest; the admin
\* or implementation entry it wrote, if any, is one whose creation by that
\* call was confirmed.
C5_FailedCallAppendsNoProxy ==
  \A c \in Calls :
    frame[c].pc = "failed" =>
      /\ "proxy" \notin frame[c].wrote
      /\ \A k \in 1..Len(manifest.proxies) :
           manifest.proxies[k].deployTransaction \notin TxsOf(c)
      /\ "admin" \in frame[c].wrote =>
           /\ manifest.admin.deployTransaction \in TxsOfOp(c, "admin")
           /\ txs[manifest.admin.deployTransaction].status = "ok"
      /\ "impl" \in frame[c].wrote =>
           \E e \in manifest.impls :
             e.txHash \in TxsOfOp(c, "impl") /\ txs[e.txHash].status = "ok"

\* a call that deployed the admin and then failed on its proxy's creation
C5_Witness ==
  \E c \in Calls :
    /\ frame[c].pc = "failed"
    /\ frame[c].wrote = {"impl", "admin"}
    /\ \E i \in TxsOfOp(c, "proxy") : txs[i].status = "reverted"

\* a creation refused because its address already holds code
DuplicateRevert(i) == txs[i].status = "reverted" /\ HasCode(TxAddress(i))

\* c2 repeats, after c1 succeeded, the call c1 made
SameCallAgain(c1, c2) ==
  /\ c1 \in frame[c2].after
  /\ frame[c1].pc = "done"
  /\ frame[c2].opts = frame[c1].opts

\* C6: a call repeated with the same options and implementation bytecode
\* succeeds again, the two proxies have distinct addresses, and the Manifest
\* holds exactly one implementation for the bytecode, which both proxies
\* point at; on the ordinary and on the deterministic path.
C6_ImplementationReuse ==
  \A c1, c2 \in Calls :
    SameCallAgain(c1, c2) =>
      LET entries == ImplEntry(Bytecode(frame[c1].opts.ImplFactory)) IN
      /\ Cardinality(entries) = 1
      /\ \A i \in TxsOf(c2) : ~DuplicateRevert(i)
      /\ frame[c2].pc = "done" =>
           /\ frame[c1].proxyDeployment.address # frame[c2].proxyDeployment.address
           /\ \A e \in entries :
                frame[c1].impl = e.address /\ frame[c2].impl = e.address

\* C7: the address deployContract returns is getCreate2Address of the same
\* factory, salt, bytecode, types and arguments, and is the address at which
\* the factory creates the contract from the transaction it was sent; for a
\* proxy it is the address recorded in the Manifest and bound to the handle.
C7_Create2AddressMatches ==
  \A c \in Calls :
    LET o == frame[c].opts IN
    /\ \A i \in TxsOfOp(c, "impl") :
         txs[i].to # <<>> =>
           /\ frame[c].contractDeployment.address =
                getCreate2Address(FactoryAddress, o.deployFactorySalt,
                                  Bytecode(o.ImplFactory), <<>>, <<>>)
           /\ Arrayify(frame[c].contractDeployment.address) = TxAddress(i)
           /\ frame[c].contractAddress = frame[c].contractDeployment.address
    /\ \A i \in TxsOfOp(c, "proxy") :
         txs[i].to # <<>> =>
           /\ frame[c].proxyDeployment.address =
                getCreate2Address(FactoryAddress, o.deployFactorySalt,
                                  frame[c].ProxyFactory,
                                  frame[c].proxyFactoryConstructorArgTypes,
                                  frame[c].proxyFactoryArgs)
           /\ Arrayify(frame[c].proxyDeployment.address) = TxAddress(i)
           /\ frame[c].pc = "done" =>
                /\ frame[c].inst.address = Hex(TxAddress(i))
                /\ \E k \in 1..Len(manifest.proxies) :
                     /\ manifest.proxies[k].deployTransaction = i
                     /\ manifest.proxies[k].address = Hex(TxAddress(i))

\* a deterministic call has returned and the factory has created both its
\* implementation and its proxy
C7_Witness ==
  \E c \in Calls :
    /\ frame[c].pc = "done"
    /\ Deterministic(frame[c].opts)
    /\ \E i \in TxsOfOp(c, "proxy") :
         txs[i].status = "ok" /\ frame[c].inst.address = Hex(TxAddress(i))
    /\ \E i \in TxsOfOp(c, "impl") :
         txs[i].status = "ok" /\ frame[c].impl = Hex(TxAddress(i))

AfterWarning == {"uups", "proxy", "proxyDeploying", "addProxy", "done"}

\* C9: a uups call on a Manifest whose admin is set logs exactly one warning,
\* fails for no reason but a creation of its own failing, and once returned
\* has submitted its proxy's creation and appended the proxy.
C9_UupsWarnsOnce ==
  \A c \in Calls :
    (frame[c].kind = "uups" /\ frame[c].startAdmin) =>
      /\ frame[c].pc \in AfterWarning => frame[c].warnings = 1
      /\ frame[c].pc \notin AfterWarning => frame[c].warnings <= 1
      /\ frame[c].pc = "failed" => frame[c].error = "revert"
      /\ frame[c].pc = "done" =>
           /\ TxsOfOp(c, "proxy") # {}
           /\ \E k \in 1..Len(manifest.proxies) :
                manifest.proxies[k] = frame[c].proxyDeployment

\* a uups call started with the admin set has warned once and returned
C9_Witness ==
  \E c \in Calls :
    /\ frame[c].kind = "uups"
    /\ frame[c].startAdmin
    /\ frame[c].pc = "done"
    /\ frame[c].warnings = 1
    /\ "proxy" \in frame[c].wrote

\* C10: with no kind given the kind dispatched is transparent on the ordinary
\* path and uups when deployFactory and deployFactorySalt are both given; a
\* kind given is the kind dispatched and the kind recorded with the proxy.
C10_KindDispatched ==
  \A c \in Calls :
    LET o == frame[c].opts
        expected == IF o.kind # "undefined" THEN o.kind
                    ELSE IF o.deployFactory # Undefined /\ o.deployFactorySalt # Undefined
                         THEN "uups" ELSE "transparent"
    IN
    frame[c].kind # "" =>
      /\ frame[c].kind = expected
      /\ frame[c].pc \in {"proxy", "proxyDeploying", "addProxy", "done"} =>
           /\ expected = "uups" =>
                /\ frame[c].ProxyFactory = ERC1967ProxyBytecode
                /\ frame[c].proxyFactoryConstructorArgTypes = <<"address", "bytes">>
           /\ expected = "transparent" =>
                /\ frame[c].ProxyFactory = TransparentUpgradeableProxyBytecode
                /\ frame[c].proxyFactoryConstructorArgTypes =
                     <<"address", "address", "bytes">>
           /\ expected # "beacon"
      /\ frame[c].pc = "done" =>
           \E k \in 1..Len(manifest.proxies) :
             /\ manifest.proxies[k].deployTransaction \in TxsOfOp(c, "proxy")
             /\ manifest.proxies[k].kind = expected

\* one call defaulted to uups on the deterministic path, another to
\* transparent on the ordinary path, and both recorded their proxy
C10_Witness ==
  \E c1, c2 \in Calls :
    /\ frame[c1].pc = "done" /\ frame[c2].pc = "done"
    /\ frame[c1].opts.kind = "undefined" /\ frame[c2].opts.kind = "undefined"
    /\ Deterministic(frame[c1].opts) /\ frame[c1].proxyDeployment.kind = "uups"
    /\ ~Deterministic(frame[c2].opts) /\ frame[c2].proxyDeployment.kind = "transparent"

\* C11: in every reachable state, whatever deployProxy calls have run and
\* however they interleaved, no two entries of the Manifest's proxies list
\* have the same address.
C11_ProxyAddressesUnique ==
  \A j, k \in 1..Len(manifest.proxies) :
    j # k => manifest.proxies[j].address # manifest.proxies[k].address

\* two calls created their proxies through the factory with the same salt
\* and both are recorded
C11_Witness ==
  /\ Len(manifest.proxies) = 2
  /\ \A c \in Calls : frame[c].pc = "done" /\ Deterministic(frame[c].opts)
  /\ \A k \in 1..2 : txs[manifest.proxies[k].deployTransaction].to # <<>>

IsPrefix(s, t) == Len(s) <= Len(t) /\ SubSeq(t, 1, Len(s)) = s

\* C12: the Manifest only grows: over every step the proxies list before
\* the step is a prefix of the list after it, an admin entry that is present
\* keeps its value, and every implementation entry that is present stays,
\* the only entry under its hash.
C12_ManifestOnlyGrows ==
  [][ /\ IsPrefix(manifest.proxies, manifest'.proxies)
      /\ manifest.admin # NoDeployment => manifest'.admin = manifest.admin
      /\ manifest.impls \subseteq manifest'.impls
      /\ \A e1, e2 \in manifest'.impls : e1.hash = e2.hash => e1 = e2 ]_vars

\* the Manifest holds an admin, an implementation and two proxies: every
\* kind of entry has been written, the proxies list twice
C12_Witness ==
  /\ manifest.admin # NoDeployment
  /\ manifest.impls # {}
  /\ Len(manifest.proxies) = 2

\* C13: a call that has returned successfully returns a handle whose
\* address is the address of the ProxyDeployment this call appended (the
\* address of the contract its proxy transaction creates, never the
\* implementation's or the admin's) and whose deployTransaction is this
\* call's proxy creation transaction.
C13_HandleIsProxy ==
  \A c \in Calls :
    frame[c].pc = "done" =>
      \E k \in 1..Len(manifest.proxies) :
        LET p == manifest.proxies[k] IN
        /\ p = frame[c].proxyDeployment
        /\ TxsOfOp(c, "proxy") = {p.deployTransaction}
        /\ frame[c].inst.deployTransaction = p.deployTransaction
        /\ frame[c].inst.address = p.address
        /\ frame[c].inst.address = Hex(TxAddress(p.deployTransaction))
        /\ frame[c].inst.address # frame[c].impl
        /\ manifest.admin # NoDeployment =>
             frame[c].inst.address # manifest.admin.address

\* a transparent call has returned: an implementation, an admin and a proxy
\* exist, each at its own address
C13_Witness ==
  \E c \in Calls :
    /\ frame[c].pc = "done"
    /\ frame[c].kind = "transparent"
    /\ manifest.admin # NoDeployment
    /\ frame[c].proxyFactoryArgs[2] = manifest.admin.address

\* the steps of a call that take the Manifest lock
LockSteps == {"impl", "kind", "addProxy"}

\* C14: a call that has returned, failed or not, does not hold the Manifest
\* lock; a call standing at a step that takes the lock eventually gets past
\* it, whatever the other calls do; and a call fails only with the error of
\* a creation of its own, never because the lock was held.
C14_LockReleased ==
  /\ [](\A c \in Calls : Returned(c) => lock # c)
  /\ [](\A c \in Calls : frame[c].pc = "failed" => frame[c].error = "revert")
  /\ \A c \in Calls : \A step \in LockSteps :
       (frame[c].pc = step) ~> (frame[c].pc # step)
  /\ \A c \in Calls : (frame[c].pc # "idle") ~> Returned(c)

\* a call failed at the admin's creation, which it awaited holding the lock,
\* and the other call, started meanwhile, has since written the admin and
\* returned
C14_Witness ==
  \E c, d \in Calls :
    /\ frame[c].pc = "failed"
    /\ \E i \in TxsOfOp(c, "admin") : txs[i].status = "reverted"
    /\ c \notin frame[d].after
    /\ frame[d].pc = "done"
    /\ "admin" \in frame[d].wrote

\* the creation was made through the create2 factory
ThroughFactory(i) == txs[i].to # <<>>

\* C15: within one call the implementation and the proxy are created by the
\* same mechanism: through the deterministic factory when deployFactory and
\* deployFactorySalt are both defined, by ordinary creation otherwise, also
\* when only one of the two is given.  This holds of the creations the call
\* submits and of the implementation whose address the call uses.
C15_SameMechanism ==
  \A c \in Calls :
    LET o == frame[c].opts IN
    /\ \A i \in TxsOfOp(c, "impl") \cup TxsOfOp(c, "proxy") :
         ThroughFactory(i) = Deterministic(o)
    /\ frame[c].impl # <<>> =>
         \E i \in 1..Len(txs) :
           /\ txs[i].op = "impl"
           /\ Hex(TxAddress(i)) = frame[c].impl
           /\ ThroughFactory(i) = Deterministic(o)

\* one call was given a factory but no salt and another both; each has
\* created its proxy
C15_Witness ==
  \E c, d \in Calls :
    /\ frame[c].pc = "done"
    /\ frame[c].opts.deployFactory # Undefined
    /\ frame[c].opts.deployFactorySalt = Undefined
    /\ \E i \in TxsOfOp(c, "proxy") : ~ThroughFactory(i)
    /\ frame[d].pc = "done"
    /\ Deterministic(frame[d].opts)
    /\ \E i \in TxsOfOp(d, "proxy") : ThroughFactory(i)

InitCode(bytecode, types, args) == Arrayify(bytecode) \o EncodeAll(types, args)

\* C18: a transparent call that has returned leaves the Manifest with an
\* admin, and its proxy was created with exactly the three arguments
\* (implementation address, the Manifest's admin address, initializer data)
\* of types (address, address, bytes); a uups call's proxy was created with
\* exactly the two arguments (implementation address, initializer data) of
\* types (address, bytes).
C18_ConstructorArgs ==
  \A c \in Calls :
    frame[c].pc = "done" =>
      LET args == frame[c].proxyFactoryArgs
          types == frame[c].proxyFactoryConstructorArgTypes
      IN
      /\ frame[c].kind = "transparent" =>
           /\ manifest.admin # NoDeployment
           /\ args = <<frame[c].impl, manifest.admin.address, frame[c].data>>
           /\ types = <<"address", "address", "bytes">>
           /\ \A p \in TxsOfOp(c, "proxy") :
                txs[p].initCode = InitCode(TransparentUpgradeableProxyBytecode, types, args)
      /\ frame[c].kind = "uups" =>
           /\ args = <<frame[c].impl, frame[c].data>>
           /\ types = <<"address", "bytes">>
           /\ \A p \in TxsOfOp(c, "proxy") :
                txs[p].initCode = InitCode(ERC1967ProxyBytecode, types, args)
      /\ frame[c].kind \in {"transparent", "uups"}
      /\ frame[c].impl # <<>> /\ frame[c].data # <<>>

\* a transparent call and a uups call have both returned
C18_Witness ==
  \E c, d \in Calls :
    /\ frame[c].pc = "done" /\ frame[c].kind = "transparent"
    /\ frame[d].pc = "done" /\ frame[d].kind = "uups"

\* C19: a call whose resolved kind is uups never submits an admin creation,
\* and no step of such a call changes the Manifest's admin: absent stays
\* absent, present stays the same Deployment, warning or no warning.
C19_UupsLeavesAdmin ==
  /\ [](\A c \in Calls : frame[c].kind = "uups" =>
          TxsOfOp(c, "admin") = {} /\ "admin" \notin frame[c].wrote)
  /\ [][\A c \in Calls :
          (frame'[c].kind = "uups" /\ frame'[c] # frame[c]) =>
             manifest'.admin = manifest.admin]_vars

\* uups calls have returned with and without the warning: one found no
\* admin, the other found the admin a transparent call had deployed, which
\* is the Manifest's admin still
C19_Witness ==
  \/ \E c \in Calls :
       /\ frame[c].pc = "done" /\ frame[c].kind = "uups"
       /\ frame[c].warnings = 0 /\ manifest.admin = NoDeployment
       /\ \A d \in Calls : frame[d].pc = "done" /\ frame[d].kind = "uups"
  \/ \E c, d \in Calls :
       /\ frame[c].pc = "done" /\ frame[c].kind = "uups"
       /\ frame[c].warnings = 1
       /\ "admin" \in frame[d].wrote
       /\ manifest.admin.deployTransaction \in TxsOfOp(d, "admin")

\* C20: on the deterministic path the proxy's creation is submitted only
\* after the implementation's creation is confirmed; the first constructor
\* argument of the proxy is getCreate2Address(deployFactory.address,
\* deployFactorySalt, ImplFactory.bytecode) with no constructor arguments,
\* which is the address the implementation was created at; and a call whose
\* implementation creation failed has submitted no proxy creation.
C20_ImplBeforeProxy ==
  \A c \in Calls :
    LET o == frame[c].opts IN
    Deterministic(o) =>
      /\ \A p \in TxsOfOp(c, "proxy") :
           \E i \in TxsOfOp(c, "impl") :
             /\ i < p
             /\ txs[i].status = "ok"
             /\ frame[c].proxyFactoryArgs[1] =
                  getCreate2Address(o.deployFactory[2], o.deployFactorySalt,
                                    Bytecode(o.ImplFactory), <<>>, <<>>)
             /\ frame[c].proxyFactoryArgs[1] = Hex(TxAddress(i))
             /\ SubSeq(txs[p].initCode, 2, 2) = TxAddress(i)
      /\ (\A i \in TxsOfOp(c, "impl") : txs[i].status = "reverted") =>
           TxsOfOp(c, "proxy") = {}

\* one deterministic call has its proxy creation submitted, another has
\* failed at its implementation's creation
C20_Witness ==
  \E c, d \in Calls :
    /\ Deterministic(frame[c].opts) /\ TxsOfOp(c, "proxy") # {}
    /\ Deterministic(frame[d].opts) /\ frame[d].pc = "failed"
    /\ \E i \in TxsOfOp(d, "impl") : txs[i].status = "reverted"

\* the salt is a 0x-prefixed hex string: a raw 32-byte value
IsRaw32(salt) == salt[1] = "string" /\ Head(salt[2]) = X0

\* the text of a string or numeric identifier
TextOf(salt) ==
  IF salt[1] = "number"
  THEN <<C(CASE salt[2] = 0 -> "0" [] salt[2] = 1 -> "1" [] OTHER -> "?")>>
  ELSE salt[2]

\* the CREATE2 address for the salt bytes saltBytes and the call's init code
Create2With(c, saltBytes) ==
  Hex(EvmCreate2(Arrayify(frame[c].opts.deployFactory[2]), saltBytes,
                 InitCode(frame[c].ProxyFactory,
                          frame[c].proxyFactoryConstructorArgTypes,
                          frame[c].proxyFactoryArgs)))

\* the hash of the UTF-8 bytes of a text
HashOfText(text) == << <<"k", << <<"u", text>> >> >> >>

\* C16 as stated: the salt is hash-normalized only when it is a string or
\* numeric identifier; for a raw 32-byte salt s getCreate2Address returns
\* the address computed directly from (0xff, factoryAddress, s,
\* hash(initCode)).
C16_RawSaltAsGiven ==
  \A c \in Calls :
    frame[c].pc = "done" =>
      LET salt == frame[c].opts.deployFactorySalt IN
      frame[c].contractAddress =
        IF IsRaw32(salt) THEN Create2With(c, Arrayify(salt[2]))
        ELSE Create2With(c, HashOfText(TextOf(salt)))

\* C16, amended: the salt is always hash-normalized; for every salt s, a
\* raw 32-byte value included, getCreate2Address returns the address
\* computed from (0xff, factoryAddress, hash of the text of s,
\* hash(initCode)), which for a raw 32-byte s is not the address computed
\* from s itself.
C16_SaltAlwaysHashed ==
  \A c \in Calls :
    frame[c].pc = "done" =>
      LET salt == frame[c].opts.deployFactorySalt IN
      /\ frame[c].contractAddress = Create2With(c, HashOfText(TextOf(salt)))
      /\ IsRaw32(salt) => frame[c].contractAddress # Create2With(c, Arrayify(salt[2]))

\* getCreate2Address has been called with a raw 32-byte salt and with a
\* numeric one
C16_Witness ==
  \E c, d \in Calls :
    /\ frame[c].pc = "done" /\ IsRaw32(frame[c].opts.deployFactorySalt)
    /\ frame[c].contractAddress # <<>>
    /\ frame[d].pc = "done" /\ frame[d].opts.deployFactorySalt[1] = "number"

====
